---- MODULE Spec2Model ----
(***************************************************************************)
(* ionyx/visualization/visualization.py: the grid plot dispatchers         *)
(* visualize_feature_distributions and visualize_sequential_relationships, *)
(* and visualize_feature_importance.                                       *)
(*                                                                         *)
(* The module is Python 2 code (pd.rolling_mean, range(n_plots) on the     *)
(* result of "/"): "/" on two ints is floor division, written \div here.   *)
(* One call is one behaviour: Init is the call's arguments, each action is *)
(* one statement (or one loop iteration) of the called function, and the   *)
(* calls made on the plotting backend are recorded in figs, layouts and    *)
(* charts.  A chart primitive (countplot, distplot, Series.plot, barh) is  *)
(* recorded as the call the code makes, with its arguments; what the       *)
(* backend then renders is outside the model.  The data-structure          *)
(* operations the code itself performs (fillna, reset_index, set_index,    *)
(* iloc, the subscript on the axes returned by plt.subplots, the fancy     *)
(* index importance[sorted_idx]) are modelled with the errors they raise.  *)
(***************************************************************************)
EXTENDS Integers, Sequences, FiniteSets, TLC

VARIABLES
    fn,              \* the function called: "dist", "seq" or "fi"
    pc,              \* position in the function body; "done" / "error" at the end
    err,             \* the exception that ended the call, "none" otherwise
    args,            \* the call's arguments, never modified
    data,            \* the local "data" (rebound by fillna, reset_index, set_index)
    filled,          \* whether line 131 / 205 (fillna) has run
    hk,              \* the locals hist and kde of visualize_feature_distributions
    n_features,      \* local n_features (argument n_features in "fi")
    plot_size,       \* local plot_size
    n_plots,         \* local n_plots
    i,               \* outer loop variable
    j,               \* inner loop variable
    figs,            \* number of plt.subplots calls made
    layouts,         \* number of fig.tight_layout calls made
    route,           \* the branch taken for each classified column, in order
    smoothed,        \* the column positions passed to pd.rolling_mean, in order
    charts,          \* the chart primitive calls made, in order
    fi               \* the locals of visualize_feature_importance

vars == << fn, pc, err, args, data, filled, hk, n_features, plot_size, n_plots,
           i, j, figs, layouts, route, smoothed, charts, fi >>

----------------------------------------------------------------------------
(* Bounds of the model. *)

MaxCols == 5        \* columns of a dataset with plain (numeric / string) columns
MaxTypedCols == 2   \* columns of a dataset with mixed-type and missing-value columns
MaxGrid == 2        \* grid_size ranges over 1..MaxGrid
MaxWindow == 2      \* window ranges over 1..MaxWindow
NRows == 3          \* rows of a non-empty dataset
MaxFeatures == 3    \* length of feature_importance / feature_names
MaxImp == 2         \* feature weights range over 0..MaxImp

----------------------------------------------------------------------------
(* Cell values.  A cell is a string, a missing value (NaN) or a number; a  *)
(* number is kept as the fraction n/d so that a rolling mean is exact.     *)

\* A string cell is a value v with type(v) is str, the test of lines 142 and
\* 221; a value of any other type fails that test as a number does.
Str == [k |-> "str", n |-> 0, d |-> 1]
NaN == [k |-> "nan", n |-> 0, d |-> 1]
Rat(n, d) == [k |-> "num", n |-> n, d |-> d]
Num(x) == Rat(x, 1)

IsStr(c) == c.k = "str"
IsNaN(c) == c.k = "nan"
IsNum(c) == c.k = "num"

\* equality of two cells as values (fractions compared by cross-multiplication)
CellEq(a, b) ==
    /\ a.k = b.k
    /\ a.k = "num" => a.n * b.d = b.n * a.d

SeriesEq(s, t) ==
    /\ Len(s) = Len(t)
    /\ \A p \in 1..Len(s) : CellEq(s[p], t[p])

RECURSIVE SumCells(_, _, _)
\* the sum of the numeric cells s[lo..hi] as a fraction
SumCells(s, lo, hi) ==
    IF lo > hi THEN Rat(0, 1)
    ELSE LET r == SumCells(s, lo + 1, hi)
             c == s[lo]
         IN  IF IsNum(c) THEN Rat(c.n * r.d + r.n * c.d, c.d * r.d) ELSE r

NObs(s, lo, hi) == Cardinality({p \in lo..hi : IsNum(s[p])})

----------------------------------------------------------------------------
(* Datasets: a pandas data frame is an index (name, values) and an ordered *)
(* list of named columns of NRows values each (or of none).                *)

ColNames == << "a", "b", "c", "d", "e", "f", "g", "h" >>
NoName == "<None>"

NumCol == [t \in 1..NRows |-> Num((t * (t + 1)) \div 2)]     \* 1, 3, 6, ... increasing
StrCol == [t \in 1..NRows |-> Str]
NanStrCol == [t \in 1..NRows |-> IF t = 1 THEN NaN ELSE Str]  \* missing first, strings after
NumStrCol == [t \in 1..NRows |-> IF t = 1 THEN Num(2) ELSE Str]
StrNumCol == [t \in 1..NRows |-> IF t = 1 THEN Str ELSE Num(t)]
NumNanCol == [t \in 1..NRows |-> IF t = 2 THEN NaN ELSE Num(t + 1)]

PlainCols == {NumCol, StrCol}
TypedCols == {NumCol, StrCol, NanStrCol, NumStrCol, StrNumCol, NumNanCol}

Named(vs) == [p \in 1..Len(vs) |-> [name |-> ColNames[p], vals |-> vs[p]]]

ColumnLists ==
    UNION { {Named(vs) : vs \in [1..n -> PlainCols]} : n \in 0..MaxCols }
    \cup UNION { {Named(vs) : vs \in [1..n -> TypedCols]} : n \in 0..MaxTypedCols }
    \cup { Named([p \in 1..n |-> << >>]) : n \in 0..MaxCols }   \* a frame with no rows

NoRows(cols) == Len(cols) > 0 /\ Len(cols[1].vals) = 0

\* the index a frame gets when none is given: 0, 1, 2, ..., unnamed
RangeIndex(nrows) == [name |-> NoName, vals |-> [t \in 1..nrows |-> Num(t - 1)]]

Indexes(cols) ==
    IF NoRows(cols) THEN {RangeIndex(0)}
    ELSE { RangeIndex(NRows),
           [name |-> "ts", vals |-> StrCol],
           [name |-> "ts", vals |-> [t \in 1..NRows |-> IF t = 1 THEN NaN ELSE Num(t)]],
           [name |-> ColNames[1], vals |-> [t \in 1..NRows |-> Num(t)]] }

Frame(idx, cols) == [index |-> idx, columns |-> cols]

----------------------------------------------------------------------------
(* The arguments of a call.  fig_size and bins are handed to the backend   *)
(* unread and are left out.  same_object is the outcome of the identity    *)
(* test "time is not 'index'" (line 207): a time equal to 'index' is the   *)
(* same object as the literal when it is the default or an interned        *)
(* literal, and another object when it was built at run time.              *)

VizTypes == {"hist", "kde", "both", "pie"}

NoArgs ==
    [data |-> Frame(RangeIndex(0), << >>), viz_type |-> "hist", grid_size |-> 1,
     time |-> "index", same_object |-> TRUE, smooth_method |-> "<None>", window |-> 1,
     feature_importance |-> << >>, feature_names |-> << >>]

TimeArgs(cols) ==
    { [time |-> "index", same_object |-> b] : b \in BOOLEAN }
    \cup { [time |-> t, same_object |-> FALSE] :
              t \in {"ts", "zz"} \cup {cols[p].name : p \in {1, Len(cols)} \cap (1..Len(cols))} }

SmoothArgs ==
    { [smooth_method |-> "<None>", window |-> 1] }
    \cup { [smooth_method |-> "mean", window |-> w] : w \in 1..MaxWindow }

DistArgs(cols, v, g) ==
    [NoArgs EXCEPT !.data = Frame(RangeIndex(IF NoRows(cols) THEN 0 ELSE NRows), cols),
                   !.viz_type = v, !.grid_size = g]

SeqArgs(cols, idx, g, t, s) ==
    [NoArgs EXCEPT !.data = Frame(idx, cols), !.grid_size = g,
                   !.time = t.time, !.same_object = t.same_object,
                   !.smooth_method = s.smooth_method, !.window = s.window]

RECURSIVE MaxOf(_)
MaxOf(s) == IF Len(s) = 0 THEN 0
            ELSE LET m == MaxOf(Tail(s)) IN IF Head(s) > m THEN Head(s) ELSE m

\* feature weights with a positive maximum, names ordered identically (line 307)
Weights(m) == {x \in [1..m -> 0..MaxImp] : MaxOf(x) > 0}

FiArgs(w) ==
    [NoArgs EXCEPT !.feature_importance = w,
                   !.feature_names = [p \in 1..Len(w) |-> ColNames[p]]]

NoFi == [feature_importance |-> << >>, importance |-> << >>, sorted_idx |-> << >>,
         pos |-> << >>, bars |-> << >>, yticks |-> << >>, yticklabels |-> << >>]

InitCall(f, a, start, nf) ==
    /\ fn = f
    /\ args = a
    /\ pc = start
    /\ err = "none"
    /\ data = a.data
    /\ filled = FALSE
    /\ hk = [hist |-> FALSE, kde |-> FALSE]
    /\ n_features = nf
    /\ plot_size = 0
    /\ n_plots = 0
    /\ i = 0
    /\ j = 0
    /\ figs = 0
    /\ layouts = 0
    /\ route = << >>
    /\ smoothed = << >>
    /\ charts = << >>
    /\ fi = NoFi

Init ==
    \/ \E cols \in ColumnLists, v \in VizTypes, g \in 1..MaxGrid :
          InitCall("dist", DistArgs(cols, v, g), "viz_type", 0)
    \/ \E cols \in ColumnLists, g \in 1..MaxGrid, s \in SmoothArgs :
          \E idx \in Indexes(cols), t \in TimeArgs(cols) :
             InitCall("seq", SeqArgs(cols, idx, g, t, s), "fillna", 0)
    \/ \E m \in 1..MaxFeatures, nf \in 1..(MaxFeatures + 1) :
          \E w \in Weights(m) : InitCall("fi", FiArgs(w), "fi_norm", nf)

----------------------------------------------------------------------------
(* The library operations the two grid functions apply to the data frame.  *)

\* fillna as it would be if the replacement were dropped
fillna_noop(frame) == frame

\* DataFrame.fillna(0): every missing cell of every column becomes 0; the
\* index is not touched
fillna(frame) ==
    [frame EXCEPT !.columns =
        [p \in 1..Len(frame.columns) |->
            [frame.columns[p] EXCEPT !.vals =
                [t \in 1..Len(frame.columns[p].vals) |->
                    IF IsNaN(frame.columns[p].vals[t]) THEN Num(0)
                    ELSE frame.columns[p].vals[t]]]]]

ColumnNames(frame) == {frame.columns[p].name : p \in 1..Len(frame.columns)}

\* the name under which DataFrame.reset_index() inserts the index: its own
\* name, or 'index' when it has none ('level_0' when 'index' is taken)
IndexColumnName(frame) ==
    IF frame.index.name # NoName THEN frame.index.name
    ELSE IF "index" \in ColumnNames(frame) THEN "level_0" ELSE "index"

\* reset_index raises ValueError (cannot insert, already exists) when the
\* index carries the name of a column
Insertable(frame) == frame.index.name \notin ColumnNames(frame)

\* DataFrame.reset_index(): the index becomes the first column and a fresh
\* 0, 1, 2, ... index replaces it
reset_index(frame) ==
    [index |-> RangeIndex(Len(frame.index.vals)),
     columns |-> << [name |-> IndexColumnName(frame), vals |-> frame.index.vals] >>
                 \o frame.columns]

\* the position of the column called name (names are unique)
ColumnAt(frame, name) == CHOOSE p \in 1..Len(frame.columns) : frame.columns[p].name = name

\* set_index as it would be with drop=False: the column stays a column
set_index_keep(frame, time) ==
    [index |-> [name |-> time, vals |-> frame.columns[ColumnAt(frame, time)].vals],
     columns |-> frame.columns]

\* DataFrame.set_index(time), drop=True: the column becomes the index and
\* leaves the columns; the order of the others is kept
set_index(frame, time) ==
    LET p == ColumnAt(frame, time) IN
    [index |-> [name |-> time, vals |-> frame.columns[p].vals],
     columns |-> SubSeq(frame.columns, 1, p - 1)
                 \o SubSeq(frame.columns, p + 1, Len(frame.columns))]

\* pd.rolling_mean(series, window), min_periods = window: position t holds
\* the mean of the observations in the window ending at t when there are at
\* least window of them, and NaN otherwise
rolling_mean(s, window) ==
    [t \in 1..Len(s) |->
        LET lo == IF t - window + 1 < 1 THEN 1 ELSE t - window + 1
            nobs == NObs(s, lo, t)
            sum == SumCells(s, lo, t)
        IN  IF nobs >= window THEN Rat(sum.n, sum.d * nobs) ELSE NaN]

\* pd.rolling_mean converts the series to float first, which raises on a string
Convertible(s) == \A t \in 1..Len(s) : ~IsStr(s[t])

----------------------------------------------------------------------------
(* visualize_feature_distributions, lines 118-147, and                     *)
(* visualize_sequential_relationships, lines 205-233.                      *)

\* the mode check as it would be without its third branch
SupportedNoBoth(viz_type) == viz_type \in {"hist", "kde"}

Supported(viz_type) == viz_type \in {"hist", "kde", "both"}

HistKde(viz_type) ==
    [hist |-> viz_type \in {"hist", "both"}, kde |-> viz_type \in {"kde", "both"}]

\* the batch count as it would be without the test for an exact multiple
NPlotsExtra(n, size) == n \div size + 1

\* n_features / plot_size if n_features % plot_size == 0 else n_features / plot_size + 1
NPlots(n, size) == IF n % size = 0 THEN n \div size ELSE n \div size + 1

\* plt.subplots(grid_size, grid_size) with the default squeeze=True returns a
\* single Axes, not an array, for a 1 x 1 grid: the subscript ax[r, c] on it
\* raises TypeError (lines 55-60 of the same file handle this case by hand)
Squeezed(grid_size) == grid_size = 1

\* ax[j / grid_size, j % grid_size]
AxCell(jj, grid_size) == [row |-> jj \div grid_size, col |-> jj % grid_size]

\* the classification as it would be on the last row instead of the first
LastIsStr(frame, index) ==
    IsStr(frame.columns[index + 1].vals[Len(frame.columns[index + 1].vals)])

\* type(data.iloc[0, index]) is str
FirstIsStr(frame, index) == IsStr(frame.columns[index + 1].vals[1])

Index == i * plot_size + j

Raise(e) ==
    /\ pc' = "error"
    /\ err' = e

\* lines 118-128
CheckVizType ==
    /\ pc = "viz_type"
    /\ Supported(args.viz_type)
    /\ hk' = HistKde(args.viz_type)
    /\ pc' = "fillna"
    /\ UNCHANGED << fn, err, args, data, filled, n_features, plot_size, n_plots,
                    i, j, figs, layouts, route, smoothed, charts, fi >>

\* line 128
RaiseVizType ==
    /\ pc = "viz_type"
    /\ ~Supported(args.viz_type)
    /\ Raise("Exception")
    /\ UNCHANGED << fn, args, data, filled, hk, n_features, plot_size, n_plots,
                    i, j, figs, layouts, route, smoothed, charts, fi >>

\* line 131, line 205
FillNa ==
    /\ pc = "fillna"
    /\ data' = fillna(data)
    /\ filled' = TRUE
    /\ pc' = IF fn = "seq" THEN "rekey" ELSE "count"
    /\ UNCHANGED << fn, err, args, hk, n_features, plot_size, n_plots,
                    i, j, figs, layouts, route, smoothed, charts, fi >>

\* the frame after lines 207-211 when they raise nothing
ReKeyed(frame, time) ==
    [set_index(reset_index(frame), time) EXCEPT !.index.name = NoName]

\* lines 207-211, time is 'index': only the index's name is cleared
KeepIndex ==
    /\ pc = "rekey"
    /\ args.same_object
    /\ data' = [data EXCEPT !.index.name = NoName]
    /\ pc' = "count"
    /\ UNCHANGED << fn, err, args, filled, hk, n_features, plot_size, n_plots,
                    i, j, figs, layouts, route, smoothed, charts, fi >>

\* lines 207-211, time is not 'index' and names a column of the reset frame
ReKey ==
    /\ pc = "rekey"
    /\ ~args.same_object
    /\ Insertable(data)
    /\ args.time \in ColumnNames(reset_index(data))
    /\ data' = ReKeyed(data, args.time)
    /\ pc' = "count"
    /\ UNCHANGED << fn, err, args, filled, hk, n_features, plot_size, n_plots,
                    i, j, figs, layouts, route, smoothed, charts, fi >>

\* line 209: set_index raises KeyError on a name that is no column
RaiseKeyError ==
    /\ pc = "rekey"
    /\ ~args.same_object
    /\ Insertable(data)
    /\ args.time \notin ColumnNames(reset_index(data))
    /\ data' = reset_index(data)
    /\ Raise("KeyError")
    /\ UNCHANGED << fn, args, filled, hk, n_features, plot_size, n_plots,
                    i, j, figs, layouts, route, smoothed, charts, fi >>

\* line 208: reset_index raises ValueError when it cannot insert the index
RaiseInsertError ==
    /\ pc = "rekey"
    /\ ~args.same_object
    /\ ~Insertable(data)
    /\ Raise("ValueError")
    /\ UNCHANGED << fn, args, data, filled, hk, n_features, plot_size, n_plots,
                    i, j, figs, layouts, route, smoothed, charts, fi >>

\* lines 133-135, lines 212-214
CountPlots ==
    /\ pc = "count"
    /\ n_features' = Len(data.columns)
    /\ plot_size' = args.grid_size * args.grid_size
    /\ n_plots' = NPlots(Len(data.columns), args.grid_size * args.grid_size)
    /\ i' = 0
    /\ pc' = "for_i"
    /\ UNCHANGED << fn, err, args, data, filled, hk, j, figs, layouts, route,
                    smoothed, charts, fi >>

\* line 138, line 217: the next batch's figure
Subplots ==
    /\ pc = "for_i"
    /\ i < n_plots
    /\ figs' = figs + 1
    /\ j' = 0
    /\ pc' = "for_j"
    /\ UNCHANGED << fn, err, args, data, filled, hk, n_features, plot_size, n_plots,
                    i, layouts, route, smoothed, charts, fi >>

\* range(n_plots) is exhausted: the function returns
Return ==
    /\ pc = "for_i"
    /\ i >= n_plots
    /\ pc' = "done"
    /\ UNCHANGED << fn, err, args, data, filled, hk, n_features, plot_size, n_plots,
                    i, j, figs, layouts, route, smoothed, charts, fi >>

\* line 147, line 233: range(plot_size) is exhausted
TightLayout ==
    /\ pc = "for_j"
    /\ j >= plot_size
    /\ layouts' = layouts + 1
    /\ i' = i + 1
    /\ pc' = "for_i"
    /\ UNCHANGED << fn, err, args, data, filled, hk, n_features, plot_size, n_plots,
                    j, figs, route, smoothed, charts, fi >>

\* line 141, line 220: index >= n_features, nothing is drawn in the cell
BlankCell ==
    /\ pc = "for_j"
    /\ j < plot_size
    /\ Index >= n_features
    /\ j' = j + 1
    /\ UNCHANGED << fn, pc, err, args, data, filled, hk, n_features, plot_size,
                    n_plots, i, figs, layouts, route, smoothed, charts, fi >>

InBounds ==
    /\ pc = "for_j"
    /\ j < plot_size
    /\ Index < n_features

\* line 142, line 221: data.iloc[0, index] on a frame without rows
RaiseIndexError ==
    /\ InBounds
    /\ Len(data.columns[Index + 1].vals) = 0
    /\ Raise("IndexError")
    /\ UNCHANGED << fn, args, data, filled, hk, n_features, plot_size, n_plots,
                    i, j, figs, layouts, route, smoothed, charts, fi >>

Classified ==
    /\ InBounds
    /\ Len(data.columns[Index + 1].vals) > 0

Chart(kind, frame) ==
    [fig |-> i, row |-> AxCell(j, args.grid_size).row, col |-> AxCell(j, args.grid_size).col,
     index |-> Index, name |-> frame.columns[Index + 1].name, kind |-> kind,
     series |-> frame.columns[Index + 1].vals]

\* the chart primitive is called with ax = ax[j / grid_size, j % grid_size];
\* the subscript is evaluated first and raises on a squeezed 1 x 1 grid
Draw(kind, frame) ==
    IF Squeezed(args.grid_size)
    THEN /\ Raise("TypeError")
         /\ UNCHANGED << charts, j >>
    ELSE /\ charts' = Append(charts, Chart(kind, frame))
         /\ j' = j + 1
         /\ UNCHANGED << pc, err >>

\* line 143
CountPlot ==
    /\ fn = "dist"
    /\ Classified
    /\ FirstIsStr(data, Index)
    /\ route' = Append(route, [index |-> Index, branch |-> "countplot"])
    /\ Draw("countplot", data)
    /\ UNCHANGED << fn, args, data, filled, hk, n_features, plot_size, n_plots,
                    i, figs, layouts, smoothed, fi >>

\* lines 145-146
DistPlot ==
    /\ fn = "dist"
    /\ Classified
    /\ ~FirstIsStr(data, Index)
    /\ route' = Append(route, [index |-> Index, branch |-> "distplot"])
    /\ Draw("distplot", data)
    /\ UNCHANGED << fn, args, data, filled, hk, n_features, plot_size, n_plots,
                    i, figs, layouts, smoothed, fi >>

\* the string branch as it would be with the count chart of line 143
SkipStrCountPlot ==
    /\ fn = "seq"
    /\ Classified
    /\ FirstIsStr(data, Index)
    /\ route' = Append(route, [index |-> Index, branch |-> "countplot"])
    /\ Draw("countplot", data)
    /\ UNCHANGED << fn, args, data, filled, hk, n_features, plot_size, n_plots,
                    i, figs, layouts, smoothed, fi >>

\* line 221, the test fails: a column whose first value is a string gets nothing
SkipStr ==
    /\ fn = "seq"
    /\ Classified
    /\ FirstIsStr(data, Index)
    /\ route' = Append(route, [index |-> Index, branch |-> "none"])
    /\ j' = j + 1
    /\ UNCHANGED << fn, pc, err, args, data, filled, hk, n_features, plot_size,
                    n_plots, i, figs, layouts, smoothed, charts, fi >>

Smoothing == args.smooth_method = "mean"

\* the frame after line 223: column index holds its rolling mean
Smooth(frame, index, window) ==
    [frame EXCEPT !.columns[index + 1].vals = rolling_mean(@, window)]

\* lines 222-232 with smooth_method None: the column is plotted as it is
LinePlot ==
    /\ fn = "seq"
    /\ Classified
    /\ ~FirstIsStr(data, Index)
    /\ ~Smoothing
    /\ route' = Append(route, [index |-> Index, branch |-> "line"])
    /\ Draw("line", data)
    /\ UNCHANGED << fn, args, data, filled, hk, n_features, plot_size, n_plots,
                    i, figs, layouts, smoothed, fi >>

\* lines 222-223 and 231-232: the column is replaced by its rolling mean, then plotted
SmoothLinePlot ==
    /\ fn = "seq"
    /\ Classified
    /\ ~FirstIsStr(data, Index)
    /\ Smoothing
    /\ Convertible(data.columns[Index + 1].vals)
    /\ route' = Append(route, [index |-> Index, branch |-> "line"])
    /\ smoothed' = Append(smoothed, Index)
    /\ data' = Smooth(data, Index, args.window)
    /\ Draw("line", Smooth(data, Index, args.window))
    /\ UNCHANGED << fn, args, filled, hk, n_features, plot_size, n_plots,
                    i, figs, layouts, fi >>

\* line 223: pd.rolling_mean raises on a column that holds a string
RaiseValueError ==
    /\ fn = "seq"
    /\ Classified
    /\ ~FirstIsStr(data, Index)
    /\ Smoothing
    /\ ~Convertible(data.columns[Index + 1].vals)
    /\ route' = Append(route, [index |-> Index, branch |-> "line"])
    /\ Raise("ValueError")
    /\ UNCHANGED << fn, args, data, filled, hk, n_features, plot_size, n_plots,
                    i, j, figs, layouts, smoothed, charts, fi >>

----------------------------------------------------------------------------
(* visualize_feature_importance, lines 315-327.  Arrays are 0-based in the *)
(* code and 1-based here: the code's a[k] is a[k + 1].                     *)

\* a <= b for two numeric cells
RatLeq(a, b) == a.n * b.d <= b.n * a.d

\* 100.0 * (feature_importance / feature_importance.max())
Normalised(w) == [p \in 1..Len(w) |-> Rat(100 * w[p], MaxOf(w))]

\* feature_importance[0:n_features] if len(feature_names) > n_features else feature_importance
Importance(fimp, names, n) ==
    IF Len(names) > n THEN SubSeq(fimp, 1, n) ELSE fimp

\* np.argsort(a) returns some order of 0..len(a)-1 that sorts a ascending
\* (the default sort is not stable: equal values come in either order)
IsArgsort(idx, a) ==
    /\ Len(idx) = Len(a)
    /\ {idx[p] : p \in 1..Len(idx)} = 0..(Len(a) - 1)
    /\ \A p \in 1..(Len(idx) - 1) : RatLeq(a[idx[p] + 1], a[idx[p + 1] + 1])

\* a[idx] is defined when every element of idx is a position of a
Indexable(a, idx) == \A p \in 1..Len(idx) : idx[p] < Len(a)

Take(a, idx) == [p \in 1..Len(idx) |-> a[idx[p] + 1]]

\* line 315
FiNormalise ==
    /\ pc = "fi_norm"
    /\ fi' = [fi EXCEPT !.feature_importance = Normalised(args.feature_importance)]
    /\ pc' = "fi_slice"
    /\ UNCHANGED << fn, err, args, data, filled, hk, n_features, plot_size, n_plots,
                    i, j, figs, layouts, route, smoothed, charts >>

\* line 316
FiSlice ==
    /\ pc = "fi_slice"
    /\ fi' = [fi EXCEPT !.importance =
                 Importance(fi.feature_importance, args.feature_names, n_features)]
    /\ pc' = "fi_argsort"
    /\ UNCHANGED << fn, err, args, data, filled, hk, n_features, plot_size, n_plots,
                    i, j, figs, layouts, route, smoothed, charts >>

\* lines 317-318
FiArgsort ==
    /\ pc = "fi_argsort"
    /\ \E idx \in [1..Len(fi.feature_importance) -> 0..(Len(fi.feature_importance) - 1)] :
          /\ IsArgsort(idx, fi.feature_importance)
          /\ fi' = [fi EXCEPT !.sorted_idx = idx,
                              !.pos = [p \in 1..Len(idx) |-> p - 1]]
    /\ pc' = "fi_subplots"
    /\ UNCHANGED << fn, err, args, data, filled, hk, n_features, plot_size, n_plots,
                    i, j, figs, layouts, route, smoothed, charts >>

\* lines 320-321
FiSubplots ==
    /\ pc = "fi_subplots"
    /\ figs' = figs + 1
    /\ pc' = "fi_barh"
    /\ UNCHANGED << fn, err, args, data, filled, hk, n_features, plot_size, n_plots,
                    i, j, layouts, route, smoothed, charts, fi >>

\* line 322: one bar per element of pos, of width importance[sorted_idx]
FiBarh ==
    /\ pc = "fi_barh"
    /\ Indexable(fi.importance, fi.sorted_idx)
    /\ fi' = [fi EXCEPT !.bars = Take(fi.importance, fi.sorted_idx)]
    /\ pc' = "fi_labels"
    /\ UNCHANGED << fn, err, args, data, filled, hk, n_features, plot_size, n_plots,
                    i, j, figs, layouts, route, smoothed, charts >>

\* line 322: importance[sorted_idx] with an index past the end of importance
FiRaiseIndexError ==
    /\ pc = "fi_barh"
    /\ ~Indexable(fi.importance, fi.sorted_idx)
    /\ Raise("IndexError")
    /\ UNCHANGED << fn, args, data, filled, hk, n_features, plot_size, n_plots,
                    i, j, figs, layouts, route, smoothed, charts, fi >>

\* lines 323-327
FiLabels ==
    /\ pc = "fi_labels"
    /\ fi' = [fi EXCEPT !.yticks = fi.pos,
                        !.yticklabels = Take(args.feature_names, fi.sorted_idx)]
    /\ layouts' = layouts + 1
    /\ pc' = "done"
    /\ UNCHANGED << fn, err, args, data, filled, hk, n_features, plot_size, n_plots,
                    i, j, figs, route, smoothed, charts >>

----------------------------------------------------------------------------

Next ==
    \/ CheckVizType
    \/ RaiseVizType
    \/ FillNa
    \/ KeepIndex
    \/ ReKey
    \/ RaiseInsertError
    \/ RaiseKeyError
    \/ CountPlots
    \/ Subplots
    \/ Return
    \/ TightLayout
    \/ BlankCell
    \/ RaiseIndexError
    \/ CountPlot
    \/ DistPlot
    \/ SkipStr
    \/ LinePlot
    \/ SmoothLinePlot
    \/ RaiseValueError
    \/ FiNormalise
    \/ FiSlice
    \/ FiArgsort
    \/ FiSubplots
    \/ FiBarh
    \/ FiRaiseIndexError
    \/ FiLabels

Spec == Init /\ [][Next]_vars

Terminated == pc \in {"done", "error"}

TypeOK ==
    /\ fn \in {"dist", "seq", "fi"}
    /\ err \in {"none", "Exception", "KeyError", "IndexError", "TypeError", "ValueError"}
    /\ (pc = "error") = (err # "none")
    /\ figs \in Nat /\ layouts \in Nat /\ layouts <= figs

----------------------------------------------------------------------------
(* Vocabulary of the properties. *)

Grid == fn \in {"dist", "seq"}

\* the input's column count and the grid size of the call
N0 == Len(args.data.columns)
G == args.grid_size

Ceil(n, d) == (n + d - 1) \div d

\* the name under which reset_index re-inserts the index of the input
IndexColumn == IndexColumnName(args.data)

\* the call names a column of the input as its time column (and the index
\* can be re-inserted)
TimeIsColumn ==
    /\ fn = "seq"
    /\ ~args.same_object
    /\ args.time \in ColumnNames(args.data)
    /\ Insertable(args.data)

\* the arguments are ones the function does not reject
Accepted ==
    /\ fn = "dist" => Supported(args.viz_type)
    /\ fn = "seq" =>
          \/ args.same_object
          \/ /\ Insertable(args.data)
             /\ args.time \in ColumnNames(args.data) \cup {IndexColumn}

\* every column of the input has rows and is all strings or free of strings
Homogeneous(vals) ==
    /\ Len(vals) > 0
    /\ (\A t \in 1..Len(vals) : IsStr(vals[t])) \/ (\A t \in 1..Len(vals) : ~IsStr(vals[t]))

PlainInput ==
    /\ \A p \in 1..N0 : Homogeneous(args.data.columns[p].vals)
    /\ Homogeneous(args.data.index.vals)

\* every column of the input is quantitative, and the columns are plotted as given
QuantInput ==
    /\ PlainInput
    /\ \A p \in 1..N0 : ~IsStr(args.data.columns[p].vals[1])
    /\ fn = "seq" => args.same_object

\* the frame the loops run over, before any smoothing (defined for Accepted calls)
Plotted ==
    IF fn = "dist" \/ args.same_object THEN fillna(args.data)
    ELSE ReKeyed(fillna(args.data), args.time)

ChartsOf(k) == {c \in 1..Len(charts) : charts[c].index = k}
TimesSmoothed(k) == Cardinality({p \in 1..Len(smoothed) : smoothed[p] = k})

\* the w-point trailing moving average: position t holds the mean of
\* positions t-w+1..t, and the first w-1 positions (and every window that
\* holds a missing value) are undefined
TrailingMean(s, w) ==
    [t \in 1..Len(s) |->
        IF t < w \/ \E p \in (t - w + 1)..t : ~IsNum(s[p]) THEN NaN
        ELSE LET sum == SumCells(s, t - w + 1, t) IN Rat(sum.n, sum.d * w)]

----------------------------------------------------------------------------
\* C1: for every column count n >= 0 and every grid size g >= 1, both grid
\* functions allocate exactly ceil(n / g^2) figures.  Stated of a finished
\* call whose arguments are accepted and whose columns are homogeneous.
C1_FiguresAreCeil ==
    (Grid /\ Terminated /\ Accepted /\ PlainInput) => figs = Ceil(N0, G * G)

\* The count the code computes is the ceiling, and a call that returns has
\* allocated that many figures; the claim fails only on calls that raise.
C1_ReturnedCallsAllocateCeil ==
    /\ (Grid /\ pc \in {"for_i", "for_j", "done"}) => n_plots = Ceil(N0, G * G)
    /\ (Grid /\ pc = "done") => figs = Ceil(N0, G * G) /\ layouts = figs
    /\ (Grid /\ pc = "error" /\ err = "TypeError") => G = 1

\* C2: in a dataset of quantitative columns, the column at position k is
\* drawn exactly once, in batch k div g^2, at row (k mod g^2) div g and
\* column (k mod g^2) mod g, for every grid size g >= 1.
C2_EveryColumnDrawnInItsCell ==
    (Grid /\ Terminated /\ Accepted /\ QuantInput) =>
        \A k \in 0..(N0 - 1) :
            /\ Cardinality(ChartsOf(k)) = 1
            /\ \A c \in ChartsOf(k) :
                  /\ charts[c].fig = k \div (G * G)
                  /\ charts[c].row = (k % (G * G)) \div G
                  /\ charts[c].col = (k % (G * G)) % G

\* On a grid of two or more the placement is as C2 says, for every chart drawn.
C2_PlacementFromTwo ==
    Grid =>
        /\ \A c \in 1..Len(charts) :
              /\ charts[c].fig = charts[c].index \div (G * G)
              /\ charts[c].row = (charts[c].index % (G * G)) \div G
              /\ charts[c].col = (charts[c].index % (G * G)) % G
        /\ \A c, e \in 1..Len(charts) : c < e => charts[c].index < charts[e].index
        /\ (pc = "done" /\ G >= 2 /\ Accepted /\ QuantInput) =>
              \A k \in 0..(N0 - 1) : Cardinality(ChartsOf(k)) = 1

\* the first-row value the caller passed for the column at 0-based position k
\* (visualize_feature_distributions does not reorder the columns)
InputFirst(k) == args.data.columns[k + 1].vals[1]

\* C3: in visualize_feature_distributions a column goes to the count chart
\* if and only if its first-row value is a string and to the distribution
\* chart otherwise, whatever the later rows hold.
C3_RoutedOnFirstRow ==
    fn = "dist" =>
        /\ \A r \in 1..Len(route) :
              /\ route[r].branch \in {"countplot", "distplot"}
              /\ (route[r].branch = "countplot") = IsStr(InputFirst(route[r].index))
        /\ \A c \in 1..Len(charts) :
              (charts[c].kind = "countplot") = IsStr(InputFirst(charts[c].index))

\* a count chart drawn for a column whose later rows are numbers, and a
\* distribution chart drawn for a column whose later rows are strings
C3_Witness ==
    /\ fn = "dist"
    /\ \E c \in 1..Len(charts) :
          /\ charts[c].kind = "countplot"
          /\ \E t \in 2..Len(charts[c].series) : IsNum(charts[c].series[t])
    /\ \E c \in 1..Len(charts) :
          /\ charts[c].kind = "distplot"
          /\ \E t \in 2..Len(charts[c].series) : IsStr(charts[c].series[t])

\* C4: in sequential mode every in-bounds column whose first-row value is a
\* string is rendered as a count chart, so its cell is never left blank.
C4_StringColumnGetsCountChart ==
    fn = "seq" =>
        \A r \in 1..Len(route) :
            FirstIsStr(data, route[r].index) =>
                \E c \in ChartsOf(route[r].index) : charts[c].kind = "countplot"

\* C4 as the code has it: in sequential mode a column whose first-row value
\* is a string gets no chart at all; only line charts are drawn, each for a
\* column whose first-row value is not a string.
C4_StringColumnGetsNoChart ==
    fn = "seq" =>
        /\ \A c \in 1..Len(charts) :
              /\ charts[c].kind = "line"
              /\ ~IsStr(Plotted.columns[charts[c].index + 1].vals[1])
        /\ \A r \in 1..Len(route) :
              IsStr(Plotted.columns[route[r].index + 1].vals[1]) =>
                  route[r].branch = "none" /\ ChartsOf(route[r].index) = {}

\* a returned sequential call that drew a line chart after passing over a
\* string column in the same figure
C4_Witness ==
    /\ fn = "seq"
    /\ pc = "done"
    /\ \E r \in 1..Len(route), c \in 1..Len(charts) :
          /\ route[r].branch = "none"
          /\ route[r].index < charts[c].index
          /\ charts[c].fig = route[r].index \div plot_size

\* C5: an unsupported viz_type raises at once: no figure, no chart, and the
\* dataset neither read nor zero-filled; a supported one never raises there.
C5_UnsupportedRaisesFirst ==
    fn = "dist" =>
        /\ (~Supported(args.viz_type) /\ pc # "viz_type") =>
              /\ pc = "error" /\ err = "Exception"
              /\ figs = 0 /\ layouts = 0 /\ charts = << >> /\ route = << >>
              /\ ~filled /\ data = args.data
        /\ args.viz_type \in {"hist", "kde", "both"} => err # "Exception"

\* the call was refused for its viz_type on a dataset that has a missing value
C5_Witness ==
    /\ fn = "dist"
    /\ err = "Exception"
    /\ \E p \in 1..N0 : \E t \in 1..Len(args.data.columns[p].vals) :
          IsNaN(args.data.columns[p].vals[t])

\* C6: a dataset with zero columns yields zero batches, no figure and no
\* error, in both variants, whatever the other parameters (a time column
\* other than the default index included).  Stated with a supported viz_type
\* and a time that is the default 'index' or differs from 'index'.
C6_NoColumnsNoError ==
    (Grid /\ N0 = 0 /\ (fn = "dist" => Supported(args.viz_type))
          /\ (args.time = "index" => args.same_object)) =>
        /\ figs = 0
        /\ n_plots = 0
        /\ err = "none"

\* C6 as the code has it: zero columns yield zero batches and no figure in
\* both variants; the call returns without error exactly when its arguments
\* are accepted: a supported viz_type, and a time that is the literal
\* 'index' or the name under which the index is re-inserted.  Any other
\* time raises KeyError, a frame without columns having no column to re-key on.
C6_NoColumnsNoFigure ==
    (Grid /\ N0 = 0) =>
        /\ figs = 0 /\ layouts = 0 /\ charts = << >>
        /\ n_plots = 0
        /\ Terminated => ((err = "none") = Accepted)
        /\ (Terminated /\ fn = "seq" /\ ~Accepted) => err = "KeyError"
        /\ (Accepted /\ pc \in {"for_i", "done"}) => n_plots = 0 /\ n_features = 0

\* a sequential call on a frame without columns returned after re-keying on
\* the name of its index
C6_Witness ==
    /\ fn = "seq"
    /\ N0 = 0
    /\ ~args.same_object
    /\ pc = "done"

\* C7: with smooth_method 'mean' and window w the series plotted for each
\* quantitative column is its w-point trailing moving average, the first
\* w-1 positions undefined; each quantitative column is smoothed exactly
\* once and string-typed columns are never smoothed.
C7_EachColumnSmoothedOnce ==
    (fn = "seq" /\ Smoothing /\ Terminated /\ Accepted /\ PlainInput) =>
        \A k \in 0..(Len(Plotted.columns) - 1) :
            IF IsStr(Plotted.columns[k + 1].vals[1])
            THEN TimesSmoothed(k) = 0
            ELSE /\ TimesSmoothed(k) = 1
                 /\ Cardinality(ChartsOf(k)) = 1
                 /\ \A c \in ChartsOf(k) :
                       SeriesEq(charts[c].series,
                                TrailingMean(Plotted.columns[k + 1].vals, args.window))

\* What holds of every call: a plotted series is the trailing moving average
\* of its zero-filled column, no column is smoothed twice and none whose
\* first value is a string is smoothed; a call that returns has smoothed
\* every convertible quantitative column once.
C7_PlottedSeriesIsTrailingMean ==
    (fn = "seq" /\ Smoothing) =>
        /\ \A c \in 1..Len(charts) :
              SeriesEq(charts[c].series,
                       TrailingMean(Plotted.columns[charts[c].index + 1].vals, args.window))
        /\ \A p \in 1..Len(smoothed) :
              /\ TimesSmoothed(smoothed[p]) = 1
              /\ ~IsStr(Plotted.columns[smoothed[p] + 1].vals[1])
        /\ pc = "done" =>
              \A k \in 0..(Len(Plotted.columns) - 1) :
                  TimesSmoothed(k) = IF IsStr(Plotted.columns[k + 1].vals[1]) THEN 0 ELSE 1

\* C8: visualize_feature_importance given more feature names than
\* n_features completes without an indexing error and plots exactly
\* n_features bars, each labelled with its own feature's name; given at most
\* n_features it plots one bar per feature in ascending order of importance.
C8_PlotsNFeaturesBars ==
    (fn = "fi" /\ Terminated) =>
        /\ err = "none"
        /\ Len(fi.bars) = (IF Len(args.feature_names) > n_features THEN n_features
                           ELSE Len(args.feature_names))
        /\ \A p \in 1..Len(fi.bars) :
              \E q \in 1..Len(args.feature_names) :
                  /\ fi.yticklabels[p] = args.feature_names[q]
                  /\ CellEq(fi.bars[p], fi.feature_importance[q])
        /\ \A p \in 1..(Len(fi.bars) - 1) : RatLeq(fi.bars[p], fi.bars[p + 1])

\* What the code does: it returns exactly when no more names than n_features
\* are given, and then the bars are all the features in ascending order,
\* each under its own name; otherwise line 322 raises IndexError.
C8_ReturnsOnlyWithoutTruncation ==
    (fn = "fi" /\ Terminated) =>
        /\ (err = "none") = (Len(args.feature_names) <= n_features)
        /\ err = "none" =>
              /\ Len(fi.bars) = Len(args.feature_names)
              /\ \A p \in 1..Len(fi.bars) :
                    /\ fi.yticklabels[p] = args.feature_names[fi.sorted_idx[p] + 1]
                    /\ CellEq(fi.bars[p], fi.feature_importance[fi.sorted_idx[p] + 1])
              /\ \A p \in 1..(Len(fi.bars) - 1) : RatLeq(fi.bars[p], fi.bars[p + 1])

\* the names of a frame's columns, in order
NameList(frame) == [p \in 1..Len(frame.columns) |-> frame.columns[p].name]

\* s without its element at position p
Without(s, p) == SubSeq(s, 1, p - 1) \o SubSeq(s, p + 1, Len(s))

\* C9: called with a time column other than 'index', the re-keyed dataset no
\* longer has the time column among its plotted columns, the former index
\* is the first plotted column, the other columns keep their order, and the
\* number of plotted columns, hence the batch count, is that of the input.
C9_ReKeyedColumns ==
    (TimeIsColumn /\ pc \notin {"fillna", "rekey"}) =>
        /\ err # "KeyError"
        /\ args.time \notin ColumnNames(data)
        /\ data.columns[1].name = IndexColumn
        /\ pc = "count" => data.columns[1].vals = args.data.index.vals
        /\ NameList(data) =
              << IndexColumn >> \o Without(NameList(args.data), ColumnAt(args.data, args.time))
        /\ Len(data.columns) = N0
        /\ pc # "count" => n_features = N0 /\ n_plots = Ceil(N0, G * G)

\* a returned call that re-keyed a frame of three or more columns on a
\* column that is neither its first nor its only one
C9_Witness ==
    /\ TimeIsColumn
    /\ pc = "done"
    /\ N0 >= 3
    /\ ColumnAt(args.data, args.time) > 1
    /\ figs >= 1

\* C10: missing values are replaced before any classification and before
\* any figure is allocated, so in visualize_feature_distributions a column
\* whose first-row value is missing is classified on the substituted zero
\* and goes to the distribution chart, even when its other values are strings.
C10_FilledBeforeClassified ==
    /\ (Grid /\ (figs > 0 \/ route # << >> \/ charts # << >>)) => filled
    /\ fn = "dist" =>
          \A r \in 1..Len(route) :
              IsNaN(InputFirst(route[r].index)) =>
                  /\ route[r].branch = "distplot"
                  /\ CellEq(data.columns[route[r].index + 1].vals[1], Num(0))
    /\ fn = "dist" =>
          \A c \in 1..Len(charts) :
              IsNaN(InputFirst(charts[c].index)) =>
                  /\ charts[c].kind = "distplot"
                  /\ CellEq(charts[c].series[1], Num(0))

\* a distribution chart drawn for a column whose first value was missing and
\* whose other values are all strings
C10_Witness ==
    /\ fn = "dist"
    /\ \E c \in 1..Len(charts) :
          /\ charts[c].kind = "distplot"
          /\ IsNaN(InputFirst(charts[c].index))
          /\ \A t \in 2..Len(charts[c].series) : IsStr(charts[c].series[t])

====
